---------------------------- MODULE Spec2Model ----------------------------
(***************************************************************************)
(* A model of skiff-org/typed-envelopes: the varint framing primitives,    *)
(* the AADMeta header record, the Wrapper datagram factory, the            *)
(* TaggedSecretBox envelope and the TypedBytes wire-bytes wrapper.         *)
(*                                                                         *)
(* Byte buffers (Uint8Array) are sequences of integers 0..255.  JavaScript *)
(* strings are sequences of UTF-16 code units.  Every JavaScript value the *)
(* model handles is a record with a "kind" field, so that any two values   *)
(* can be compared.  A function that computes a local once and uses it     *)
(* several times is written as an operator that takes the local as a       *)
(* parameter.                                                              *)
(***************************************************************************)
EXTENDS Integers, Sequences, FiniteSets, TLC

(***************************************************************************)
(* JavaScript values                                                       *)
(***************************************************************************)

\* null
Null == [kind |-> "null"]

\* undefined (a property that is absent)
Undefined == [kind |-> "undefined"]

\* a thrown exception, named by its constructor and message
Raised(err) == [kind |-> "raised", err |-> err]

IsRaised(v) == v.kind = "raised"

Min(a, b) == IF a < b THEN a ELSE b

\* the concatenation of seqs[lo..hi], by halves
RECURSIVE FlattenRange(_, _, _)
FlattenRange(seqs, lo, hi) ==
    IF lo > hi THEN <<>>
    ELSE IF lo = hi THEN seqs[lo]
    ELSE FlattenRange(seqs, lo, (lo + hi) \div 2)
         \o FlattenRange(seqs, ((lo + hi) \div 2) + 1, hi)

Flatten(seqs) == FlattenRange(seqs, 1, Len(seqs))

\* Uint8Array.prototype.slice(start, end): 0-based, end exclusive, both
\* clamped to the array's length
Slice(s, start, end) == SubSeq(s, Min(start, Len(s)) + 1, Min(end, Len(s)))

\* A copyWithin that copies from one element further on.
CopyWithinNext(s, target, start) ==
    SubSeq([i \in 1..Len(s) |->
               IF i > target /\ i - target + start + 1 <= Len(s)
               THEN s[i - target + start + 1] ELSE s[i]],
           1, Len(s))

\* Uint8Array.prototype.copyWithin(target, start): copies s[start..] onto
\* s[target..] in place and returns the array
CopyWithin(s, target, start) ==
    SubSeq([i \in 1..Len(s) |->
               IF i > target /\ i - target + start <= Len(s)
               THEN s[i - target + start] ELSE s[i]],
           1, Len(s))

(***************************************************************************)
(* varint (the npm package, ^6.0.0), as called by the framing primitives   *)
(***************************************************************************)

\* A decoded length is kept as lo + hi * 2^28 so that lengths beyond the
\* 32-bit range are still told apart by encodingLength.
VarintZero == [ok |-> TRUE, lo |-> 0, hi |-> 0]

\* the groups from the one at bit offset shift on, with the 7 bits of byte
\* b added at shift
VarintAdd(b, shift, rest) ==
    IF ~rest.ok THEN rest
    ELSE IF shift < 28
         THEN [rest EXCEPT !.lo = @ + (b % 128) * (2 ^ shift)]
         ELSE [rest EXCEPT !.hi = @ + (b % 128) * (2 ^ (shift - 28))]

\* varint.decode(buf) from position counter (1-based) at bit offset shift:
\* RangeError when the buffer ends inside the varint or shift exceeds 49
RECURSIVE VarintRead(_, _, _)
VarintRead(buf, counter, shift) ==
    IF counter > Len(buf) \/ shift > 49
    THEN [ok |-> FALSE, lo |-> 0, hi |-> 0]
    ELSE VarintAdd(buf[counter], shift,
                   IF buf[counter] >= 128
                   THEN VarintRead(buf, counter + 1, shift + 7)
                   ELSE VarintZero)

VarintDecode(buf) == VarintRead(buf, 1, 0)

\* varint.encodingLength(value)
VarintEncodingLength(n) ==
    IF n.hi = 0
    THEN IF n.lo < 2 ^ 7 THEN 1
         ELSE IF n.lo < 2 ^ 14 THEN 2
         ELSE IF n.lo < 2 ^ 21 THEN 3
         ELSE 4
    ELSE IF n.hi < 2 ^ 7 THEN 5
         ELSE IF n.hi < 2 ^ 14 THEN 6
         ELSE IF n.hi < 2 ^ 21 THEN 7
         ELSE 8

\* varint.encode(num): base-128 groups, least significant first, the high
\* bit set on every byte but the last
RECURSIVE VarintEncode(_)
VarintEncode(num) ==
    IF num < 128 THEN <<num>>
    ELSE <<(num % 128) + 128>> \o VarintEncode(num \div 128)

(***************************************************************************)
(* Byte-framing primitives                                                 *)
(***************************************************************************)

concatUint8Arrays(u8s) == Flatten(u8s)

varintPrefixed(data) == concatUint8Arrays(<<VarintEncode(Len(data)), data>>)

\* the offset chunkLen + chunkLenLen, as slice() sees it in a buffer bs
ChunkEnd(bs, chunkLen) ==
    IF chunkLen.hi > 0 THEN Len(bs)
    ELSE Min(chunkLen.lo + VarintEncodingLength(chunkLen), Len(bs))

\* the two slices of extractVarintPrefixed, chunkLen being decoded
ExtractChunk(bs, chunkLen) ==
    IF ~chunkLen.ok
    THEN [raised |-> TRUE, chunk |-> <<>>, bs |-> bs]
    ELSE [raised |-> FALSE,
          chunk |-> Slice(bs, VarintEncodingLength(chunkLen), ChunkEnd(bs, chunkLen)),
          bs |-> Slice(bs, ChunkEnd(bs, chunkLen), Len(bs))]

\* extractVarintPrefixed(o): the chunk returned and the cursor o.bs left
\* behind, or the RangeError of varint.decode
extractVarintPrefixed(bs) == ExtractChunk(bs, VarintDecode(bs))

(***************************************************************************)
(* TextEncoder / TextDecoder (UTF-8)                                       *)
(***************************************************************************)

\* U+FFFD REPLACEMENT CHARACTER and U+FEFF BYTE ORDER MARK
ReplacementChar == 65533
ByteOrderMark == 65279

IsHighSurrogate(c) == c >= 55296 /\ c <= 56319
IsLowSurrogate(c) == c >= 56320 /\ c <= 57343

\* the UTF-8 bytes of one code point
Utf8Bytes(cp) ==
    IF cp < 128 THEN <<cp>>
    ELSE IF cp < 2048 THEN <<192 + (cp \div 64), 128 + (cp % 64)>>
    ELSE IF cp < 65536
         THEN <<224 + (cp \div 4096), 128 + ((cp \div 64) % 64), 128 + (cp % 64)>>
    ELSE <<240 + (cp \div 262144), 128 + ((cp \div 4096) % 64),
           128 + ((cp \div 64) % 64), 128 + (cp % 64)>>

\* whether code unit i of str is one half of a surrogate pair
Paired(str, i) ==
    \/ /\ IsHighSurrogate(str[i])
       /\ i < Len(str) /\ IsLowSurrogate(str[i + 1])
    \/ /\ IsLowSurrogate(str[i])
       /\ i > 1 /\ IsHighSurrogate(str[i - 1])

\* the bytes that code unit i of str contributes: a surrogate pair is one
\* code point, encoded at its first half; a lone surrogate is encoded as
\* U+FFFD
EncodedAt(str, i) ==
    IF Paired(str, i)
    THEN IF IsHighSurrogate(str[i])
         THEN Utf8Bytes(65536 + ((str[i] - 55296) * 1024) + (str[i + 1] - 56320))
         ELSE <<>>
    ELSE IF IsHighSurrogate(str[i]) \/ IsLowSurrogate(str[i])
         THEN Utf8Bytes(ReplacementChar)
         ELSE Utf8Bytes(str[i])

\* _encoder.encode(str)
TextEncode(str) == Flatten([i \in 1..Len(str) |-> EncodedAt(str, i)])

\* the UTF-16 code units of one code point
CodeUnits(cp) ==
    IF cp < 65536 THEN <<cp>>
    ELSE <<55296 + ((cp - 65536) \div 1024), 56320 + ((cp - 65536) % 1024)>>

\* The UTF-8 decoder of the Encoding standard.  A lead byte always starts
\* a sequence (met inside another sequence it ends that one with U+FFFD
\* and is read again), so what the decoder emits on reading byte i is
\* decided by the at most three bytes before it.

\* the length of the sequence a lead byte announces, 0 for any other byte
SequenceLength(b) ==
    IF b >= 194 /\ b <= 223 THEN 2
    ELSE IF b >= 224 /\ b <= 239 THEN 3
    ELSE IF b >= 240 /\ b <= 244 THEN 4
    ELSE 0

\* whether byte c may be continuation byte number n of the lead byte b
\* (the first one is bounded more tightly after E0, ED, F0 and F4)
ContinuationOK(b, n, c) ==
    /\ c >= (IF n = 1 /\ b = 224 THEN 160
             ELSE IF n = 1 /\ b = 240 THEN 144 ELSE 128)
    /\ c <= (IF n = 1 /\ b = 237 THEN 159
             ELSE IF n = 1 /\ b = 244 THEN 143 ELSE 191)

\* whether, about to read byte i, the decoder is inside the sequence led
\* by byte j
Inside(bs, j, i) ==
    /\ j >= 1 /\ j < i
    /\ SequenceLength(bs[j]) > i - j
    /\ \A k \in (j + 1)..(i - 1) : ContinuationOK(bs[j], k - j, bs[k])

\* the lead byte of the sequence the decoder is inside when about to read
\* byte i, 0 when it is inside none
LeadOf(bs, i) ==
    IF \E j \in (i - 3)..(i - 1) : Inside(bs, j, i)
    THEN CHOOSE j \in (i - 3)..(i - 1) : Inside(bs, j, i)
    ELSE 0

\* the code point of the complete sequence bs[j..i]
CodePoint(bs, j, i) ==
    IF i - j = 1 THEN (bs[j] - 192) * 64 + (bs[i] - 128)
    ELSE IF i - j = 2
         THEN (bs[j] - 224) * 4096 + (bs[j + 1] - 128) * 64 + (bs[i] - 128)
    ELSE (bs[j] - 240) * 262144 + (bs[j + 1] - 128) * 4096
         + (bs[j + 2] - 128) * 64 + (bs[i] - 128)

\* what reading byte i from the initial state emits
Fresh(bs, i) ==
    IF bs[i] <= 127 THEN <<bs[i]>>
    ELSE IF SequenceLength(bs[i]) > 0 THEN <<>>
    ELSE <<ReplacementChar>>

\* what reading byte i emits, j being the lead byte of the sequence at hand
EmittedAfter(bs, j, i) ==
    IF j = 0 THEN Fresh(bs, i)
    ELSE IF ~ContinuationOK(bs[j], i - j, bs[i])
         THEN <<ReplacementChar>> \o Fresh(bs, i)
    ELSE IF i - j + 1 = SequenceLength(bs[j])
         THEN CodeUnits(CodePoint(bs, j, i))
    ELSE <<>>

Emitted(bs, i) == EmittedAfter(bs, LeadOf(bs, i), i)

\* the decoded code units; a sequence cut short by the end of the input
\* decodes to U+FFFD
Utf8Decode(bs) ==
    Flatten([i \in 1..Len(bs) |-> Emitted(bs, i)])
    \o (IF LeadOf(bs, Len(bs) + 1) # 0 THEN <<ReplacementChar>> ELSE <<>>)

\* a leading byte order mark is dropped (ignoreBOM is false by default)
StripBOM(s) == IF s # <<>> /\ Head(s) = ByteOrderMark THEN Tail(s) ELSE s

\* _decoder.decode(bytes)
TextDecode(bs) == StripBOM(Utf8Decode(bs))

(***************************************************************************)
(* AADMeta, the header record                                              *)
(***************************************************************************)

\* AADMeta.METADATA_VERSION = '0.1.0'
METADATA_VERSION == <<48, 46, 49, 46, 48>>

\* new AADMeta(version, type, nonce)
AADMeta(version, type, nonce) ==
    [kind |-> "AADMeta", version |-> version, type |-> type, nonce |-> nonce]

\* AADMeta.prototype.serialize, the metadata format version written being fv
SerializeWith(fv, aad) ==
    varintPrefixed(concatUint8Arrays(<<
        varintPrefixed(TextEncode(fv)),
        varintPrefixed(TextEncode(aad.version)),
        varintPrefixed(TextEncode(aad.type)),
        varintPrefixed(aad.nonce)>>))

AADMetaSerialize(aad) == SerializeWith(METADATA_VERSION, aad)

HeaderRangeError == Raised("RangeError: Could not decode varint")

\* n successive extractVarintPrefixed(buf) calls on the cursor buf = {bs}
RECURSIVE ExtractFields(_, _)
RECURSIVE ExtractNext(_, _)
ExtractFields(bs, n) ==
    IF n = 0 THEN <<>> ELSE ExtractNext(extractVarintPrefixed(bs), n)

ExtractNext(f, n) == <<f>> \o ExtractFields(f.bs, n - 1)

\* the outcome of deserialize, f being its four extractions: null on
\* another metadata version, an Error on bytes left over, the RangeError of
\* an extraction
AADMetaOfFields(f) ==
    IF f[1].raised THEN HeaderRangeError
    ELSE IF TextDecode(f[1].chunk) # METADATA_VERSION THEN Null
    ELSE IF f[2].raised \/ f[3].raised \/ f[4].raised THEN HeaderRangeError
    ELSE IF Len(f[4].bs) # 0
         THEN Raised("Error: unexpected additional content in header")
    ELSE AADMeta(TextDecode(f[2].chunk), TextDecode(f[3].chunk), f[4].chunk)

\* AADMeta.prototype.deserialize(data)
AADMetaDeserialize(data) == AADMetaOfFields(ExtractFields(data, 4))

\* the end of unpack: the metadata version is extracted once more and
\* checked
UnpackParsed(data, rawMetadata, metadata, metadataVersion) ==
    IF IsRaised(metadata) THEN metadata
    ELSE IF metadataVersion.raised THEN HeaderRangeError
    ELSE IF TextDecode(metadataVersion.chunk) # METADATA_VERSION
         THEN Raised("Error: unrecognized metadata version")
    ELSE [kind |-> "unpacked", metadata |-> metadata,
          rawMetadata |-> rawMetadata,
          content |-> Slice(data, Len(rawMetadata), Len(data))]

\* unpack once the header chunk is extracted
UnpackHeader(data, header) ==
    IF header.raised THEN HeaderRangeError
    ELSE UnpackParsed(data, varintPrefixed(header.chunk),
                      AADMetaDeserialize(CopyWithin(header.chunk, 0, 0)),
                      extractVarintPrefixed(CopyWithin(header.chunk, 0, 0)))

\* AADMeta.unpack(data): the parsed header, the header bytes as re-encoded
\* by varintPrefixed, and the bytes after them
AADMetaUnpack(data) ==
    UnpackHeader(data, extractVarintPrefixed(CopyWithin(data, 0, 0)))

(***************************************************************************)
(* ChaCha20Poly1305 (@stablelib/chacha20poly1305), reduced in size: a      *)
(* keystream XORed onto the plaintext and a polynomial one-time MAC over   *)
(* the associated data, the ciphertext and their lengths, with a key       *)
(* derived from the cipher key and the nonce.  The tag is TAG_LENGTH bytes *)
(* and the polynomial is evaluated modulo PolyPrime.                       *)
(***************************************************************************)

NONCE_LENGTH == 12
MaxNonceLength == 16
TAG_LENGTH == 2
PolyPrime == 32749

\* bitwise XOR of two bytes
RECURSIVE XorBits(_, _, _)
XorBits(a, b, n) ==
    IF n = 0 THEN 0
    ELSE ((a + b) % 2) + 2 * XorBits(a \div 2, b \div 2, n - 1)

Xor(a, b) == XorBits(a, b, 8)

Square(x) == (x * x) % PolyPrime

\* r^n modulo PolyPrime, by squaring
RECURSIVE PowMod(_, _)
PowMod(r, n) ==
    IF n = 0 THEN 1
    ELSE IF n % 2 = 0 THEN Square(PowMod(r, n \div 2))
    ELSE (Square(PowMod(r, n \div 2)) * r) % PolyPrime

\* Running h = (h + block + 1) * r mod p over blocks[lo..hi] from h = 0
\* gives the sum of (blocks[i] + 1) * r^(hi - i + 1); the sum is taken by
\* halves.
RECURSIVE PolyRange(_, _, _, _)
PolyRange(r, blocks, lo, hi) ==
    IF lo > hi THEN 0
    ELSE IF lo = hi THEN ((blocks[lo] + 1) * r) % PolyPrime
    ELSE (((PolyRange(r, blocks, lo, (lo + hi) \div 2)
            * PowMod(r, hi - ((lo + hi) \div 2))) % PolyPrime)
          + PolyRange(r, blocks, ((lo + hi) \div 2) + 1, hi)) % PolyPrime

PolyEval(r, blocks) == PolyRange(r, blocks, 1, Len(blocks))

\* the cipher state set up from key and nonce under a domain label
CipherState(key, nonce, label) ==
    PolyEval(31, <<label>> \o key \o <<Len(key)>> \o nonce)

\* keystream byte i (1-based) of a stream in the given state
KeyStream(state, i) == ((state + 1) * (2 * i + 1)) % 256

XorStream(state, data) ==
    SubSeq([i \in 1..Len(data) |-> Xor(data[i], KeyStream(state, i))],
           1, Len(data))

StreamXor(key, nonce, data) == XorStream(CipherState(key, nonce, 1), data)

TagBytes(t) == <<t \div 256, t % 256>>

\* the tag over (associated data, ciphertext)
Authenticate(key, nonce, ciphertext, associatedData) ==
    TagBytes((PolyEval(1 + (CipherState(key, nonce, 2) % (PolyPrime - 1)),
                       associatedData \o ciphertext
                       \o <<Len(associatedData), Len(ciphertext)>>)
              + CipherState(key, nonce, 3)) % PolyPrime)

NonceError == Raised("Error: ChaCha20Poly1305: incorrect nonce length")

SealWith(key, nonce, ciphertext, associatedData) ==
    [kind |-> "bytes",
     buf |-> ciphertext \o Authenticate(key, nonce, ciphertext, associatedData)]

\* key.seal(nonce, plaintext, associatedData): ciphertext followed by tag
Seal(key, nonce, plaintext, associatedData) ==
    IF Len(nonce) > MaxNonceLength THEN NonceError
    ELSE SealWith(key, nonce, StreamXor(key, nonce, plaintext), associatedData)

OpenWith(key, nonce, ciphertext, tag, associatedData) ==
    IF tag # Authenticate(key, nonce, ciphertext, associatedData) THEN Null
    ELSE [kind |-> "bytes", buf |-> StreamXor(key, nonce, ciphertext)]

\* An open that does not compare the tag.
OpenUnchecked(key, nonce, sealed, associatedData) ==
    IF Len(nonce) > MaxNonceLength THEN NonceError
    ELSE IF Len(sealed) < TAG_LENGTH THEN Null
    ELSE [kind |-> "bytes",
          buf |-> StreamXor(key, nonce, Slice(sealed, 0, Len(sealed) - TAG_LENGTH))]

\* key.open(nonce, sealed, associatedData): the plaintext, or null when the
\* sealed bytes are shorter than a tag or the tag does not verify
Open(key, nonce, sealed, associatedData) ==
    IF Len(nonce) > MaxNonceLength THEN NonceError
    ELSE IF Len(sealed) < TAG_LENGTH THEN Null
    ELSE OpenWith(key, nonce,
                  Slice(sealed, 0, Len(sealed) - TAG_LENGTH),
                  Slice(sealed, Len(sealed) - TAG_LENGTH, Len(sealed)),
                  associatedData)

(***************************************************************************)
(* semver: new Range(constraint).test(version), for x-range constraints    *)
(* and versions without pre-release or build tags                          *)
(***************************************************************************)

\* String.prototype.trim's white space that the model's strings use:
\* tab, line feed, carriage return, space, no-break space, U+FEFF
IsWhiteSpace(c) == c \in {9, 10, 13, 32, 160, ByteOrderMark}

\* s from the first to the last of the positions kept
TrimTo(s, kept) ==
    IF kept = {} THEN <<>>
    ELSE SubSeq(s, CHOOSE i \in kept : \A k \in kept : i <= k,
                   CHOOSE i \in kept : \A k \in kept : i >= k)

\* String.prototype.trim()
Trim(s) == TrimTo(s, {i \in 1..Len(s) : ~IsWhiteSpace(s[i])})

\* the parts of s between the positions at, which hold the separators,
\* 0 and Len(s) + 1 standing for the two ends
SplitAt(s, at) ==
    [n \in 1..(Cardinality(at) - 1) |->
        SubSeq(s, (CHOOSE i \in at : Cardinality({k \in at : k < i}) = n - 1) + 1,
                  (CHOOSE i \in at : Cardinality({k \in at : k < i}) = n) - 1)]

\* s.split(sep), for sep a single code unit
Split(s, sep) ==
    SplitAt(s, {i \in 1..Len(s) : s[i] = sep} \cup {0, Len(s) + 1})

IsDigit(c) == c >= 48 /\ c <= 57

RECURSIVE DecimalValue(_, _)
DecimalValue(s, acc) ==
    IF s = <<>> THEN acc ELSE DecimalValue(Tail(s), acc * 10 + (Head(s) - 48))

\* a numeric identifier 0|[1-9]\d* as a number, -1 when s is none; the
\* model's version numbers have at most six digits
NumericIdentifier(s) ==
    IF s = <<>> \/ Len(s) > 6 \/ (\E i \in 1..Len(s) : ~IsDigit(s[i]))
       \/ (Len(s) > 1 /\ s[1] = 48)
    THEN -1 ELSE DecimalValue(s, 0)

\* MAJOR.MINOR.PATCH, the three numbers being given
SemVerOf(major, minor, patch) ==
    IF major < 0 \/ minor < 0 \/ patch < 0 THEN [ok |-> FALSE]
    ELSE [ok |-> TRUE, major |-> major, minor |-> minor, patch |-> patch]

SemVerOfParts(parts) ==
    IF Len(parts) # 3 THEN [ok |-> FALSE]
    ELSE SemVerOf(NumericIdentifier(parts[1]), NumericIdentifier(parts[2]),
                  NumericIdentifier(parts[3]))

\* the version without an optional leading v
SemVerCore(t) == IF t # <<>> /\ Head(t) = 118 THEN Tail(t) ELSE t

\* new SemVer(version): the version is trimmed first
SemVerParse(version) == SemVerOfParts(Split(SemVerCore(Trim(version)), 46))

\* one part of an x-range: a number, or -1 for x, X, * and a missing part
XRangePart(parts, i) ==
    IF i > Len(parts) \/ parts[i] \in {<<42>>, <<120>>, <<88>>} THEN -1
    ELSE NumericIdentifier(parts[i])

\* an x-range admits the versions that agree with it up to its first
\* wildcard
XRangeAdmits(major, minor, patch, v) ==
    /\ v.ok
    /\ \/ major < 0
       \/ /\ v.major = major
          /\ \/ minor < 0
             \/ /\ v.minor = minor
                /\ (patch < 0 \/ v.patch = patch)

RangeOfParts(parts, v) ==
    XRangeAdmits(XRangePart(parts, 1), XRangePart(parts, 2),
                 XRangePart(parts, 3), v)

\* new Range(constraint).test(version): false for a version that is no
\* semver
RangeTest(constraint, version) ==
    RangeOfParts(Split(Trim(constraint), 46), SemVerParse(version))

(***************************************************************************)
(* JSON.stringify / JSON.parse over null, numbers, strings, arrays and     *)
(* objects with ordered keys                                               *)
(***************************************************************************)

JNum(n) == [kind |-> "num", n |-> n]
JStr(s) == [kind |-> "str", s |-> s]
JArr(items) == [kind |-> "arr", items |-> items]
JObj(keys, vals) == [kind |-> "obj", keys |-> keys, vals |-> vals]

\* the code units of the property names in use
KeyChars(k) ==
    CASE k = "type" -> <<116, 121, 112, 101>>
      [] k = "version" -> <<118, 101, 114, 115, 105, 111, 110>>
      [] k = "data" -> <<100, 97, 116, 97>>
      [] k = "a" -> <<97>>
      [] k = "b" -> <<98>>
      [] k = "c" -> <<99>>
      [] k = "d" -> <<100>>

\* value.key, undefined when the value has no such property
Get(value, k) ==
    IF value.kind = "obj" /\ (\E i \in 1..Len(value.keys) : value.keys[i] = k)
    THEN value.vals[CHOOSE i \in 1..Len(value.keys) : value.keys[i] = k]
    ELSE Undefined

RECURSIVE Digits(_)
Digits(n) ==
    IF n < 10 THEN <<48 + n>> ELSE Digits(n \div 10) \o <<48 + (n % 10)>>

\* a string literal: the quote and the backslash are escaped
Escaped(s) ==
    Flatten([i \in 1..Len(s) |->
                IF s[i] \in {34, 92} THEN <<92, s[i]>> ELSE <<s[i]>>])

RECURSIVE JsonStringify(_)
RECURSIVE JsonItems(_, _)
RECURSIVE JsonMembers(_, _, _)

\* the items of an array from index i, comma-separated
JsonItems(items, i) ==
    IF i > Len(items) THEN <<>>
    ELSE (IF i > 1 THEN <<44>> ELSE <<>>)
         \o (IF items[i].kind = "undefined" THEN <<110, 117, 108, 108>>
             ELSE JsonStringify(items[i]))
         \o JsonItems(items, i + 1)

\* the members of an object from index i; an undefined member is left out
JsonMembers(obj, i, first) ==
    IF i > Len(obj.keys) THEN <<>>
    ELSE IF obj.vals[i].kind = "undefined" THEN JsonMembers(obj, i + 1, first)
    ELSE (IF first THEN <<>> ELSE <<44>>)
         \o <<34>> \o Escaped(KeyChars(obj.keys[i])) \o <<34, 58>>
         \o JsonStringify(obj.vals[i])
         \o JsonMembers(obj, i + 1, FALSE)

JsonStringify(value) ==
    CASE value.kind = "null" -> <<110, 117, 108, 108>>
      [] value.kind = "num" -> Digits(value.n)
      [] value.kind = "str" -> <<34>> \o Escaped(value.s) \o <<34>>
      [] value.kind = "arr" -> <<91>> \o JsonItems(value.items, 1) \o <<93>>
      [] value.kind = "obj" -> <<123>> \o JsonMembers(value, 1, TRUE) \o <<125>>

(***************************************************************************)
(* Datagram types: the Wrapper factory, and the hand-written types of the  *)
(* test suite (Example, FooV011, FooV012, the object literal struct)       *)
(***************************************************************************)

ExampleType == <<100, 100, 108, 58, 47, 47, 115, 107, 105, 102, 102, 47,
                 101, 120, 97, 109, 112, 108, 101>>
FooBaseType == <<100, 100, 108, 58, 47, 47, 115, 107, 105, 102, 102, 47,
                 102, 111, 111>>
ExampleRange == <<48, 46, 49, 46, 42>>
V011 == <<48, 46, 49, 46, 49>>
V012 == <<48, 46, 49, 46, 50>>

\* the constructors (DatagramConstructor)
Example == [cls |-> "Example"]
FooV011 == [cls |-> "FooV011"]
FooV012 == [cls |-> "FooV012"]

\* Wrapper(typeName, versionConstraint): the class the factory returns
Wrapper(typeName, versionConstraint) ==
    [cls |-> "Wrapper", typeName |-> typeName, constraint |-> versionConstraint]

\* the type getter, as read on Object.create(type.prototype)
PrototypeType(T) ==
    CASE T.cls = "Example" -> ExampleType
      [] T.cls \in {"FooV011", "FooV012"} -> FooBaseType
      [] T.cls = "Wrapper" -> T.typeName

\* the version getter of FooV011 and FooV012
PrototypeVersion(T) == IF T.cls = "FooV011" THEN V011 ELSE V012

\* new Example(data, version)
NewExample(data, version) ==
    [kind |-> "Example", data |-> data, version |-> version]

\* new FooV011(a, b, c) and new FooV012(a, b, c, d)
NewFooV011(a, b, c) == [kind |-> "FooV011", a |-> a, b |-> b, c |-> c]
NewFooV012(a, b, c, d) ==
    [kind |-> "FooV012", a |-> a, b |-> b, c |-> c, d |-> d]

\* an object literal that conforms to Datagram: version, type and the
\* value its serialize() encodes
NewStruct(version, type, content) ==
    [kind |-> "struct", version |-> version, type |-> type, content |-> content]

\* A Wrapper constructor that does not validate the version.
WrapperNewUnchecked(W, obj, version) ==
    [kind |-> "Wrapper", factory |-> W, version |-> version,
     data |-> JObj(<<"type", "version", "data">>,
                   <<JStr(W.typeName), JStr(version), obj>>)]

\* the Wrapper class's constructor(obj, version)
WrapperNew(W, obj, version) ==
    IF ~RangeTest(W.constraint, version)
    THEN Raised("Error: invalid version string")
    ELSE [kind |-> "Wrapper", factory |-> W, version |-> version,
          data |-> JObj(<<"type", "version", "data">>,
                        <<JStr(W.typeName), JStr(version), obj>>)]

\* static wrap(data, version)
Wrap(W, data, version) == WrapperNew(W, data, version)

\* obj.type, obj.version, obj.serialize() and obj's constructor
TypeOf(obj) ==
    CASE obj.kind = "Example" -> ExampleType
      [] obj.kind \in {"FooV011", "FooV012"} -> FooBaseType
      [] obj.kind = "Wrapper" -> obj.factory.typeName
      [] obj.kind = "struct" -> obj.type

VersionOf(obj) ==
    CASE obj.kind = "FooV011" -> V011
      [] obj.kind = "FooV012" -> V012
      [] obj.kind \in {"Example", "Wrapper", "struct"} -> obj.version

\* the value a datagram's serialize() hands to JSON.stringify
JsonOf(obj) ==
    CASE obj.kind = "FooV011" -> JObj(<<"a", "b", "c">>, <<obj.a, obj.b, obj.c>>)
      [] obj.kind = "FooV012" ->
            JObj(<<"a", "b", "c", "d">>, <<obj.a, obj.b, obj.c, obj.d>>)
      [] obj.kind = "Wrapper" -> obj.data
      [] obj.kind = "struct" -> obj.content

Serialize(obj) ==
    IF obj.kind = "Example" THEN obj.data
    ELSE TextEncode(JsonStringify(JsonOf(obj)))

ConstructorOf(obj) ==
    CASE obj.kind = "Example" -> Example
      [] obj.kind = "FooV011" -> FooV011
      [] obj.kind = "FooV012" -> FooV012
      [] obj.kind = "Wrapper" -> obj.factory

(***************************************************************************)
(* The values the model draws its inputs from                              *)
(***************************************************************************)

\* the envelopes, nonces, payload numbers and patch levels in use
NumKeys == 2
NumNonces == 2
MaxValue == 1
MaxPatch == 1

\* envelope b is constructed with KeyBytes(b)
Boxes == 1..NumKeys
KeyBytes(b) == <<b, b + 7, 3 * b>>

\* nonce 1 is all zero
NonceOf(i) ==
    SubSeq([j \in 1..NONCE_LENGTH |-> ((i - 1) * (37 * j + 11)) % 256],
           1, NONCE_LENGTH)
Nonces == {NonceOf(i) : i \in 1..NumNonces}

VersionString(major, minor, patch) ==
    Digits(major) \o <<46>> \o Digits(minor) \o <<46>> \o Digits(patch)

V010 == VersionString(0, 1, 0)

\* 0.1.0 behind a byte order mark, and behind a lone high surrogate
BomV010 == <<ByteOrderMark>> \o V010
LoneV010 == <<55357>> \o V010

\* 0.1.0 .. 0.1.MaxPatch, 0.2.0, and the two above
Versions ==
    {VersionString(0, 1, p) : p \in 0..MaxPatch}
    \cup {VersionString(0, 2, 0), BomV010, LoneV010}

\* Wrapper('foo', '0.1.*') and Wrapper('bar', '0.1.*')
Foo == Wrapper(<<102, 111, 111>>, ExampleRange)
Bar == Wrapper(<<98, 97, 114>>, ExampleRange)
Wrappers == {Foo, Bar}

Types == {Example, FooV011, FooV012} \cup Wrappers

\* the values a Wrapper wraps
Payloads == {Null} \cup {JNum(n) : n \in 1..MaxValue}

Four == JStr(<<102, 111, 117, 114>>)

FooInstances ==
    {NewFooV011(JNum(n), JNum(2), JArr(<<JNum(3)>>)) : n \in 1..MaxValue}
    \cup {NewFooV012(JNum(1), JNum(2), JArr(<<JNum(3)>>), Four)}

\* the struct of the test suite: it reports FooV011's type and version and
\* serializes more members than FooV011 has
Struct ==
    NewStruct(V011, FooBaseType,
              JObj(<<"a", "b", "c", "d">>,
                   <<JNum(1), JNum(2), JArr(<<JNum(3)>>), Four>>))

\* every foo the constructor admits, and one bar
WrapperInstances ==
    {w \in {WrapperNew(Foo, x, v) : x \in Payloads, v \in Versions} : ~IsRaised(w)}
    \cup {WrapperNew(Bar, JNum(1), V010)}

\* the bytes of a wrapped foo
FooBytes == Serialize(WrapperNew(Foo, JNum(1), V010))

\* raw bytes at every version, and the bytes of a wrapped foo
ExampleInstances ==
    {NewExample(<<1, 2, 3, 4, 5>>, v) : v \in Versions}
    \cup {NewExample(FooBytes, V010)}

\* every datagram the model encrypts
Datagrams == ExampleInstances \cup FooInstances \cup {Struct} \cup WrapperInstances

\* every JSON value whose text can reach JSON.parse
JsonValues ==
    Payloads \cup {JsonOf(d) : d \in Datagrams \ ExampleInstances}

JsonTexts == {<<JsonStringify(v), v>> : v \in JsonValues}

\* JSON.parse(text): the value the text denotes, a SyntaxError on any
\* other text
JsonParse(text) ==
    IF \E p \in JsonTexts : p[1] = text
    THEN (CHOOSE p \in JsonTexts : p[1] = text)[2]
    ELSE Raised("SyntaxError: Unexpected token in JSON")

(***************************************************************************)
(* deserialize(data, version) of each type, called on                      *)
(* Object.create(type.prototype)                                           *)
(***************************************************************************)

\* new FooV011(des.a, des.b, des.c) and new FooV012(des.a, .., des.d), des
\* being what JSON.parse returned
FooOfParsed(T, des) ==
    IF IsRaised(des) THEN des
    ELSE IF des.kind = "null"
         THEN Raised("TypeError: Cannot read properties of null")
    ELSE IF T.cls = "FooV011"
         THEN NewFooV011(Get(des, "a"), Get(des, "b"), Get(des, "c"))
    ELSE NewFooV012(Get(des, "a"), Get(des, "b"), Get(des, "c"), Get(des, "d"))

\* FooV011 and FooV012: the version getter decides, then the text is parsed
FooDeserialize(T, data, version) ==
    IF version # PrototypeVersion(T) THEN Null
    ELSE FooOfParsed(T, JsonParse(TextDecode(data)))

\* the Wrapper's checks on ret, which JSON.parse returned
WrapperOfParsed(T, ret, version) ==
    IF IsRaised(ret) THEN ret
    ELSE IF ret.kind = "null" \/ Get(ret, "type") # JStr(T.typeName)
            \/ ~RangeTest(T.constraint, version)
         THEN Null
    ELSE Get(ret, "data")

\* Wrapper: JSON.parse first, then the type and version checks
WrapperDeserialize(T, data, version) ==
    WrapperOfParsed(T, JsonParse(TextDecode(data)), version)

ExampleDeserialize(data, version) ==
    IF ~RangeTest(ExampleRange, version) THEN Null
    ELSE NewExample(data, version)

Deserialize(T, data, version) ==
    CASE T.cls = "Example" -> ExampleDeserialize(data, version)
      [] T.cls \in {"FooV011", "FooV012"} -> FooDeserialize(T, data, version)
      [] T.cls = "Wrapper" -> WrapperDeserialize(T, data, version)

(***************************************************************************)
(* TypedBytes and TaggedSecretBox                                          *)
(***************************************************************************)

\* new TypedBytes(buf)
TypedBytes(buf) == [kind |-> "TypedBytes", buf |-> buf]

InspectParsed(parsed) ==
    IF IsRaised(parsed) THEN parsed
    ELSE IF parsed.kind = "null" \/ parsed.metadata.kind = "null" THEN Null
    ELSE parsed.metadata

\* TypedBytes.prototype.inspect()
Inspect(typedBytes) == InspectParsed(AADMetaUnpack(typedBytes.buf))

EncryptSealed(aadSerialized, sealed) ==
    IF IsRaised(sealed) THEN sealed
    ELSE TypedBytes(concatUint8Arrays(<<aadSerialized, sealed.buf>>))

EncryptWith(k, obj, nonce, aadSerialized) ==
    EncryptSealed(aadSerialized, Seal(k, nonce, Serialize(obj), aadSerialized))

\* TaggedSecretBox.prototype.encrypt(obj, nonce), the envelope holding k
Encrypt(k, obj, nonce) ==
    EncryptWith(k, obj, nonce,
                AADMetaSerialize(AADMeta(VersionOf(obj), TypeOf(obj), nonce)))

\* A decrypt that returns the candidate without comparing type tags.
DecryptCandidateUnchecked(type, unpacked, candidate) == candidate

\* the end of decrypt: the type check on the prototype, candidate being
\* what deserialize returned
DecryptCandidate(type, unpacked, candidate) ==
    IF IsRaised(candidate) THEN candidate
    ELSE IF PrototypeType(type) = unpacked.metadata.type THEN candidate
    ELSE Null

\* decrypt once key.open has returned decrypted
DecryptOpened(type, unpacked, decrypted) ==
    IF IsRaised(decrypted) THEN decrypted
    ELSE IF decrypted.kind = "null" THEN Null
    ELSE DecryptCandidate(type, unpacked,
                          Deserialize(type, decrypted.buf, unpacked.metadata.version))

\* decrypt once AADMeta.unpack has returned unpacked
DecryptUnpacked(k, type, unpacked) ==
    IF IsRaised(unpacked) THEN unpacked
    ELSE IF unpacked.kind = "null" \/ unpacked.metadata.kind = "null" THEN Null
    ELSE DecryptOpened(type, unpacked,
                       Open(k, unpacked.metadata.nonce, unpacked.content,
                            unpacked.rawMetadata))

\* TaggedSecretBox.prototype.decrypt(type, typedBytes), the envelope
\* holding k
Decrypt(k, type, typedBytes) ==
    DecryptUnpacked(k, type, AADMetaUnpack(typedBytes.buf))

(***************************************************************************)
(* The state: the envelopes, the wire bytes at hand, and the last call.    *)
(* A behaviour follows one buffer: it is produced by encrypt (and may have *)
(* one bit flipped on the way), or it arrives from elsewhere, and it is    *)
(* then read by at most MaxReads decrypt and inspect calls.                *)
(***************************************************************************)

MaxReads == 2

VARIABLES
    key,      \* key[b]: the key envelope b was constructed with
    wire,     \* the TypedBytes at hand, Null before there is one
    sent,     \* what encrypt was called with to produce wire, Null if nothing
    flipped,  \* the bit of wire flipped since it was produced, 0 if none
    reads,    \* the decrypt and inspect calls made on wire
    last      \* the last call: operation, envelope, type, argument, result

vars == <<key, wire, sent, flipped, reads, last>>

Call(op, box, type, arg, ret) ==
    [op |-> op, box |-> box, type |-> type, arg |-> arg, ret |-> ret]

\* new TaggedSecretBox(keyBytes), once for each envelope
Init ==
    /\ key = [b \in Boxes |-> KeyBytes(b)]
    /\ wire = Null
    /\ sent = Null
    /\ flipped = 0
    /\ reads = 0
    /\ last = Call("none", 0, Null, Null, Null)

\* Foo.wrap(data, version)
WrapCall(W, data, version) ==
    /\ wire = Null
    /\ last' = Call("wrap", 0, W, [data |-> data, version |-> version],
                    Wrap(W, data, version))
    /\ UNCHANGED <<key, wire, sent, flipped, reads>>

\* encrypt has returned enc, or raised it
EncryptReturn(b, obj, nonce, enc) ==
    /\ wire' = IF IsRaised(enc) THEN wire ELSE enc
    /\ sent' = IF IsRaised(enc) THEN sent
               ELSE [v |-> obj, nonce |-> nonce, box |-> b]
    /\ last' = Call("encrypt", b, Null, obj, enc)
    /\ UNCHANGED <<key, flipped, reads>>

\* envelope.encrypt(obj, nonce) on envelope b
EncryptCall(b, obj, nonce) ==
    /\ wire = Null
    /\ EncryptReturn(b, obj, nonce, Encrypt(key[b], obj, nonce))

\* one bit of the buffer changes on the way: bit (i - 1) % 8 of byte
\* (i - 1) \div 8, 0-based
FlipBit(buf, i) ==
    [buf EXCEPT ![((i - 1) \div 8) + 1] =
        IF (@ \div (2 ^ ((i - 1) % 8))) % 2 = 1
        THEN @ - 2 ^ ((i - 1) % 8) ELSE @ + 2 ^ ((i - 1) % 8)]

Tamper(i) ==
    /\ wire # Null /\ sent # Null
    /\ flipped = 0 /\ reads = 0
    /\ wire' = TypedBytes(FlipBit(wire.buf, i))
    /\ flipped' = i
    /\ UNCHANGED <<key, sent, reads, last>>

\* new TypedBytes(buf) on bytes that no envelope of the model produced
ReceiveCall(buf) ==
    /\ wire = Null
    /\ wire' = TypedBytes(buf)
    /\ last' = Call("receive", 0, Null, buf, wire')
    /\ UNCHANGED <<key, sent, flipped, reads>>

\* envelope.decrypt(type, typedBytes) on envelope b; unpack's copyWithin
\* writes the buffer onto itself
DecryptCall(b, type) ==
    /\ wire # Null /\ reads < MaxReads
    /\ last' = Call("decrypt", b, type, wire, Decrypt(key[b], type, wire))
    /\ wire' = TypedBytes(CopyWithin(wire.buf, 0, 0))
    /\ reads' = reads + 1
    /\ UNCHANGED <<key, sent, flipped>>

\* typedBytes.inspect()
InspectCall ==
    /\ wire # Null /\ reads < MaxReads
    /\ last' = Call("inspect", 0, Null, wire, Inspect(wire))
    /\ wire' = TypedBytes(CopyWithin(wire.buf, 0, 0))
    /\ reads' = reads + 1
    /\ UNCHANGED <<key, sent, flipped>>

\* AADMeta.unpack(concatUint8Arrays(header.serialize(), content))
UnpackCall(header, content) ==
    /\ wire = Null
    /\ last' = Call("unpack", 0, Null, [header |-> header, content |-> content],
                    AADMetaUnpack(concatUint8Arrays(
                        <<AADMetaSerialize(header), content>>)))
    /\ UNCHANGED <<key, wire, sent, flipped, reads>>

\* extractVarintPrefixed({bs})
ExtractCall(bs) ==
    /\ wire = Null
    /\ last' = Call("extract", 0, Null, bs, extractVarintPrefixed(bs))
    /\ UNCHANGED <<key, wire, sent, flipped, reads>>

\* The envelopes at work on the buffers they produce.
Next ==
    \/ \E W \in Wrappers, x \in Payloads, v \in Versions : WrapCall(W, x, v)
    \/ \E b \in Boxes, obj \in Datagrams, n \in Nonces : EncryptCall(b, obj, n)
    \/ \E b \in Boxes, T \in Types : DecryptCall(b, T)
    \/ InspectCall

Spec == Init /\ [][Next]_vars

(***************************************************************************)
(* Buffers with one bit flipped on the way                                 *)
(***************************************************************************)

\* the datagrams whose buffers are tampered with
TamperDatagrams ==
    {NewExample(<<1, 2, 3, 4, 5>>, V010), WrapperNew(Foo, JNum(1), V010)}

\* Envelope 1 produces a buffer, any one bit of it may flip, and every
\* envelope decrypts what arrives as the type that was sent.
NextTamper ==
    \/ \E obj \in TamperDatagrams, n \in Nonces : EncryptCall(1, obj, n)
    \/ wire # Null /\ \E i \in 1..(8 * Len(wire.buf)) : Tamper(i)
    \/ sent # Null /\ \E b \in Boxes : DecryptCall(b, ConstructorOf(sent.v))

SpecTamper == Init /\ [][NextTamper]_vars

(***************************************************************************)
(* Buffers from elsewhere, and the header and framing functions on their   *)
(* own                                                                     *)
(***************************************************************************)

\* the longest of the short buffers, and the length of the long string
MaxLen == 3
LongLength == 130

\* a buffer that envelope 1 produces
ValidWire ==
    Encrypt(KeyBytes(1), NewExample(<<1, 2, 3, 4, 5>>, V010), NonceOf(1)).buf

\* its header without the outer length prefix, and its sealed bytes
ValidHeader == extractVarintPrefixed(ValidWire).chunk
ValidSealed == extractVarintPrefixed(ValidWire).bs

\* the buffer cut short at every length
Truncated == {SubSeq(ValidWire, 1, n) : n \in 0..(Len(ValidWire) - 1)}

\* the header written under metadata format version 9.9.9
ForeignFormat ==
    SerializeWith(<<57, 46, 57, 46, 57>>,
                  AADMeta(V010, ExampleType, NonceOf(1))) \o ValidSealed

\* the header with one more byte inside it
TrailingByte == varintPrefixed(ValidHeader \o <<0>>) \o ValidSealed

\* every buffer of at most MaxLen bytes out of 0, 2 and 128
ShortBuffers ==
    UNION {[1..n -> {0, 2, 128}] : n \in 0..MaxLen}

\* a length prefix that never ends
EndlessPrefix == SubSeq([i \in 1..9 |-> 128], 1, 9)

Buffers ==
    Truncated \cup ShortBuffers \cup {ForeignFormat, TrailingByte, EndlessPrefix}

\* a string that takes a two-byte length prefix
LongString == SubSeq([i \in 1..LongLength |-> 97], 1, LongLength)

Strings == {<<>>, V010, BomV010, LoneV010, LongString}

Headers ==
    {AADMeta(v, t, n) : v \in Strings, t \in Strings \cup {ExampleType},
                        n \in Nonces \cup {<<>>}}

Contents == {<<>>, <<1, 2, 3>>}

NextBytes ==
    \/ \E buf \in Buffers : ReceiveCall(buf)
    \/ \E b \in Boxes, T \in Types : DecryptCall(b, T)
    \/ InspectCall
    \/ \E header \in Headers, c \in Contents : UnpackCall(header, c)
    \/ \E bs \in ShortBuffers : ExtractCall(bs)

SpecBytes == Init /\ [][NextBytes]_vars

(***************************************************************************)
(* Properties                                                              *)
(***************************************************************************)

\* the number of header bytes in the buffer encrypt produced for sent
HeaderLength(s) ==
    Len(AADMetaSerialize(AADMeta(VersionOf(s.v), TypeOf(s.v), s.nonce)))

\* the last call is a decrypt of an untouched buffer by the envelope that
\* produced it, as the type of the datagram sent
OwnDecrypt ==
    /\ last.op = "decrypt" /\ sent # Null /\ flipped = 0
    /\ last.box = sent.box
    /\ sent.v.kind # "struct"
    /\ last.type = ConstructorOf(sent.v)

\* C1: decrypt(type_of(v), encrypt(v, nonce)) on the same envelope returns
\* a non-null value equal to v, with v's type tag and version, for every
\* datagram v of a hand-written type or a Wrapper.
C1_RoundTrip ==
    OwnDecrypt => (last.ret # Null /\ last.ret = sent.v)

\* an Example whose version begins with U+FEFF has come back at another
\* version
C1_Witness ==
    /\ OwnDecrypt
    /\ sent.v = NewExample(<<1, 2, 3, 4, 5>>, BomV010)
    /\ last.ret = NewExample(<<1, 2, 3, 4, 5>>, V010)

\* the flipped bit lies in the sealed bytes (ciphertext or tag)
SealedBitFlipped == sent # Null /\ flipped > 8 * HeaderLength(sent)

\* the flipped bit lies in the header
HeaderBitFlipped ==
    sent # Null /\ flipped > 0 /\ flipped <= 8 * HeaderLength(sent)

\* C2: a decrypt of a buffer that encrypt produced returns null when one
\* bit after the header has been flipped, and when the decrypting envelope
\* holds another key than the producing one.
C2_SealedTamperDetected ==
    (/\ last.op = "decrypt" /\ sent # Null
     /\ flipped = 0 \/ SealedBitFlipped
     /\ SealedBitFlipped \/ key[last.box] # key[sent.box])
    => last.ret = Null

\* the producing envelope has decrypted a buffer whose last tag bit was
\* flipped
C2_Witness ==
    /\ last.op = "decrypt" /\ sent # Null
    /\ flipped = 8 * Len(wire.buf) /\ last.box = sent.box
    /\ last.ret = Null

\* C3: a decrypt of a buffer that encrypt produced returns null when one
\* bit inside the header has been flipped.
C3_HeaderTamperNull ==
    (last.op = "decrypt" /\ HeaderBitFlipped) => last.ret = Null

\* bit 1 of the outer length prefix was flipped and the decrypt raised
C3_Witness ==
    /\ last.op = "decrypt" /\ flipped = 2
    /\ sent.v = NewExample(<<1, 2, 3, 4, 5>>, V010)
    /\ last.ret = Raised("Error: unexpected additional content in header")

\* the buffers whose header does not decode: the empty buffer, one cut
\* inside its header, a length prefix that never ends, another metadata
\* format version, bytes left over inside the header
UndecodableHeaders ==
    {t \in Truncated : Len(t) < Len(ValidWire) - Len(ValidSealed)}
    \cup {EndlessPrefix, ForeignFormat, TrailingByte}

\* C4: decrypt and inspect return null, and raise nothing, on every buffer
\* whose header fails to decode.
C4_DecodeFailuresSoft ==
    (last.op \in {"decrypt", "inspect"} /\ last.arg.buf \in UndecodableHeaders)
    => last.ret = Null

\* inspect of the empty buffer raised the RangeError of varint.decode
C4_Witness ==
    /\ last.op = "inspect" /\ last.arg.buf = <<>>
    /\ last.ret = Raised("RangeError: Could not decode varint")

\* C5: inspect() on the buffer encrypt(v, nonce) returned gives a non-null
\* header record with v's version and v's type; it takes no key.
C5_InspectWithoutKey ==
    (last.op = "inspect" /\ sent # Null) =>
        /\ last.ret.kind = "AADMeta"
        /\ last.ret.version = VersionOf(sent.v)
        /\ last.ret.type = TypeOf(sent.v)

\* inspect reported 0.1.0 for a datagram whose version begins with U+FEFF
C5_Witness ==
    /\ last.op = "inspect" /\ sent # Null
    /\ VersionOf(sent.v) = BomV010
    /\ last.ret.kind = "AADMeta" /\ last.ret.version = V010

\* C6: a decrypt as a type whose type tag differs from the tag of the
\* datagram the buffer was produced for returns null.
C6_TypeIsolation ==
    (/\ last.op = "decrypt" /\ sent # Null
     /\ PrototypeType(last.type) # TypeOf(sent.v))
    => last.ret = Null

\* the buffer of an Example was decrypted as Wrapper('foo', '0.1.*') and
\* JSON.parse raised
C6_Witness ==
    /\ last.op = "decrypt" /\ sent # Null
    /\ sent.v = NewExample(<<1, 2, 3, 4, 5>>, V010) /\ last.type = Foo
    /\ last.ret = Raised("SyntaxError: Unexpected token in JSON")

\* what C7 states of decrypt(T, w) once the header is parsed and open has
\* returned
ClaimedOfOpened(T, unpacked, opened) ==
    IF opened.kind = "bytes" /\ PrototypeType(T) = unpacked.metadata.type
    THEN Deserialize(T, opened.buf, unpacked.metadata.version)
    ELSE Null

ClaimedOfUnpacked(k, T, unpacked) ==
    IF unpacked.kind # "unpacked" THEN Null
    ELSE ClaimedOfOpened(T, unpacked,
                         Open(k, unpacked.metadata.nonce, unpacked.content,
                              unpacked.rawMetadata))

\* C7: decrypt(T, w) returns what T's deserialize returns for the
\* authenticated plaintext and the header's payload version when open
\* succeeds and T's type tag is the header's, and null in every other case.
C7_DecryptIsDeserialize ==
    last.op = "decrypt" =>
        last.ret = ClaimedOfUnpacked(key[last.box], last.type,
                                     AADMetaUnpack(last.arg.buf))

\* a decrypt as a type of another tag than the header's did not return null
C7_Witness ==
    /\ last.op = "decrypt" /\ sent # Null /\ last.box = sent.box
    /\ PrototypeType(last.type) # TypeOf(sent.v)
    /\ last.ret # Null

\* C8: wrap(value, version) raises exactly when the version does not
\* satisfy the factory's constraint: 0.1.* admits every 0.1.p and rejects
\* 0.2.0; no Wrapper instance carries a version outside its factory's
\* constraint; and encrypt of a Wrapper instance does not raise.
C8_VersionGating ==
    /\ last.op = "wrap" =>
        /\ IsRaised(last.ret)
              <=> ~RangeTest(last.type.constraint, last.arg.version)
        /\ last.arg.version \in {VersionString(0, 1, p) : p \in 0..MaxPatch}
              => last.ret.kind = "Wrapper"
        /\ last.arg.version = VersionString(0, 2, 0)
              => last.ret = Raised("Error: invalid version string")
    /\ (last.op = "encrypt" /\ last.arg.kind = "Wrapper") =>
        /\ RangeTest(last.arg.factory.constraint, last.arg.version)
        /\ last.arg.version # VersionString(0, 2, 0)
        /\ last.ret.kind = "TypedBytes"

\* wrap has raised for 0.2.0 under the constraint 0.1.*
C8_Witness ==
    /\ last.op = "wrap" /\ last.type = Foo
    /\ last.arg.version = VersionString(0, 2, 0)
    /\ IsRaised(last.ret)

\* C9: AADMeta.unpack(serialize(header) || c) returns the header's version,
\* type and nonce, raw header bytes equal to serialize(header), and content
\* equal to c.
C9_UnpackInvertsSerialize ==
    last.op = "unpack" =>
        /\ last.ret.kind = "unpacked"
        /\ last.ret.metadata = last.arg.header
        /\ last.ret.rawMetadata = AADMetaSerialize(last.arg.header)
        /\ last.ret.content = last.arg.content

\* unpack gave back 0.1.0 for a header whose version begins with U+FEFF
C9_Witness ==
    /\ last.op = "unpack" /\ last.arg.header.version = BomV010
    /\ last.ret.kind = "unpacked" /\ last.ret.metadata.version = V010

\* the bytes the varint at the front of bs takes, and the length it declares
RECURSIVE VarintBytes(_, _)
VarintBytes(bs, counter) ==
    IF bs[counter] >= 128 THEN VarintBytes(bs, counter + 1) ELSE counter

DeclaredLength(bs) == VarintDecode(bs).lo + VarintDecode(bs).hi * (2 ^ 28)

\* C10: extractVarintPrefixed fails when fewer than n bytes follow the
\* varint that encodes n, and never returns a chunk shorter than n.
C10_ExtractFailsWhenShort ==
    (last.op = "extract" /\ VarintDecode(last.arg).ok) =>
        /\ Len(last.arg) - VarintBytes(last.arg, 1) < DeclaredLength(last.arg)
              => last.ret.raised
        /\ ~last.ret.raised => Len(last.ret.chunk) >= DeclaredLength(last.arg)

\* extractVarintPrefixed({bs: [2, 0]}) returned the one byte [0]
C10_Witness ==
    /\ last.op = "extract" /\ last.arg = <<2, 0>>
    /\ ~last.ret.raised /\ last.ret.chunk = <<0>>

\* candidate.type, as a JavaScript value: the getter of an instance, the
\* property of a parsed object, undefined on any other value
CandidateType(candidate) ==
    IF candidate.kind \in {"Example", "FooV011", "FooV012", "Wrapper", "struct"}
    THEN JStr(TypeOf(candidate))
    ELSE Get(candidate, "type")

\* what C11 states of decrypt once deserialize has returned candidate: the
\* candidate's own type decides
ClaimedOfCandidate(unpacked, candidate) ==
    IF candidate = Null THEN Null
    ELSE IF CandidateType(candidate) # JStr(unpacked.metadata.type) THEN Null
    ELSE candidate

\* what decrypt returns once deserialize has returned candidate: the type
\* of Object.create(T.prototype) decides
CheckedOnPrototype(T, unpacked, candidate) ==
    IF PrototypeType(T) # unpacked.metadata.type THEN Null ELSE candidate

\* the header of the last decrypt's buffer, what open made of it, and what
\* deserialize made of that
LastUnpacked == AADMetaUnpack(last.arg.buf)

LastOpened ==
    Open(key[last.box], LastUnpacked.metadata.nonce, LastUnpacked.content,
         LastUnpacked.rawMetadata)

LastCandidate ==
    Deserialize(last.type, LastOpened.buf, LastUnpacked.metadata.version)

\* the last call is a decrypt in which open succeeded and deserialize
\* returned
CandidateReturned ==
    /\ last.op = "decrypt"
    /\ LastUnpacked.kind = "unpacked"
    /\ LastOpened.kind = "bytes"
    /\ ~IsRaised(LastCandidate)

\* C11 as claimed: after a successful open, decrypt returns null when the
\* type the candidate reports differs from the header's payload type, and
\* the candidate otherwise.
C11_CheckOnCandidate ==
    CandidateReturned
    => last.ret = ClaimedOfCandidate(LastUnpacked, LastCandidate)

\* C11, amended: after a successful open and a deserialize that returns,
\* decrypt returns null when the type reported by Object.create(T.prototype)
\* differs from the header's payload type, and the candidate otherwise,
\* whatever type the candidate itself reports.
C11_CheckOnPrototype ==
    CandidateReturned
    => last.ret = CheckedOnPrototype(last.type, LastUnpacked, LastCandidate)

\* FooV011 built a candidate from the buffer of a wrapped foo at 0.1.1 and
\* decrypt returned null, the header's type being 'foo'
C11_Witness ==
    /\ CandidateReturned
    /\ last.type = FooV011 /\ sent.v.kind = "Wrapper"
    /\ LastCandidate.kind = "FooV011"
    /\ last.ret = Null

\* the buffer as encrypt returned it, and what a first call on it returns
\* in an envelope just constructed
ProducedWire == Encrypt(KeyBytes(sent.box), sent.v, sent.nonce)

FirstResult(call) ==
    IF call.op = "decrypt"
    THEN Decrypt(KeyBytes(call.box), call.type, ProducedWire)
    ELSE Inspect(ProducedWire)

\* C12: whatever calls were made, every envelope holds the key it was
\* constructed with, the buffer at hand is as encrypt produced it, and the
\* last decrypt or inspect was handed that buffer and returned what a first
\* call on it returns.
C12_Stateless ==
    /\ key = [b \in Boxes |-> KeyBytes(b)]
    /\ sent # Null => wire = ProducedWire
    /\ (sent # Null /\ reads > 0) =>
          /\ last.arg = ProducedWire
          /\ last.ret = FirstResult(last)

\* a decrypt that came after another call on the same buffer has returned
\* the datagram sent
C12_Witness ==
    /\ reads = MaxReads /\ last.op = "decrypt"
    /\ sent # Null /\ last.ret = sent.v

\* the buffer AADMeta.unpack was handed in the last call
UnpackInput ==
    IF last.op = "unpack"
    THEN concatUint8Arrays(<<AADMetaSerialize(last.arg.header), last.arg.content>>)
    ELSE last.arg.buf

\* whether unpack takes two buffers to the same raw header and content
SameParse(p, q) ==
    /\ q.kind = "unpacked"
    /\ q.rawMetadata = p.rawMetadata /\ q.content = p.content

ParsedAlike(buf, parsed) ==
    {b \in Buffers \ {buf} : SameParse(parsed, AADMetaUnpack(b))}

\* what C13 states of a buffer that unpack has parsed
LiteralHeader(buf, parsed) ==
    parsed.kind = "unpacked" =>
        /\ parsed.rawMetadata \o parsed.content = buf
        /\ ParsedAlike(buf, parsed) = {}

\* C13: whenever AADMeta.unpack returns, the raw header bytes it returns
\* followed by the content it returns are the input buffer, and no other
\* buffer is parsed to the same raw header and content.
C13_AssociatedDataLiteral ==
    last.op \in {"decrypt", "inspect", "unpack"}
    => LiteralHeader(UnpackInput, AADMetaUnpack(UnpackInput))

\* inspect parsed a buffer cut one byte before the end of its header, and
\* the raw header unpack returns for it begins with another length
C13_Witness ==
    /\ last.op = "inspect"
    /\ last.arg.buf = SubSeq(ValidWire, 1, Len(ValidWire) - Len(ValidSealed) - 1)
    /\ last.ret.kind = "AADMeta"
    /\ AADMetaUnpack(last.arg.buf).rawMetadata[1] # last.arg.buf[1]

=============================================================================
